---------------------------- MODULE Spec2Model ----------------------------
(***************************************************************************)
(* A model of stmetrics/polar.py: the polar feature extractor ts_polar,    *)
(* its metric extractors, and the pairwise distance symmetric_distance.    *)
(*                                                                         *)
(* Numbers.  Series values are small naturals.  Every real number the      *)
(* program computes on them is kept exactly:                               *)
(*   Rat(q)        the rational q = <<n, d>>, d > 0, in lowest terms       *)
(*   Sqrt(q)       the square root of the rational q                       *)
(*   Turn(q)       the angle 2*pi*q                                        *)
(*   SinArea(N, q) the area q * sin(2*pi/N)  (N = 4 gives Rat(q))          *)
(*   Opaque(..)    an area the model keeps symbolic                        *)
(*   Inf           numpy.inf                                               *)
(*                                                                         *)
(* Geometry.  A series of length N is mapped to the ring whose i-th point  *)
(* lies at radius r_i on the ray of angle 2*pi*i/N.  With N >= 3 and       *)
(* r_i >= 0 the enclosed region is the union, over the N sectors between   *)
(* consecutive rays, of the triangle with legs r_i and r_i+1 on the two    *)
(* rays of the sector.  Areas of such regions, of their intersections and  *)
(* of their symmetric differences are rational multiples of sin(2*pi/N).   *)
(* For N = 4 the rays are the coordinate axes and all coordinates are      *)
(* integers, so the envelope, the season quadrants, the centroid and the   *)
(* minimum rotated rectangle are exact as well.                            *)
(***************************************************************************)
EXTENDS Integers, Sequences, FiniteSets, TLC

(***************************************************************************)
(* Bounds.                                                                 *)
(***************************************************************************)
MaxVal == 2

Values == 0..MaxVal

\* Lengths of the cleaned series given to ts_polar: 1 (the short-circuit),
\* 2 (no polygon) and 4 (the rays are the axes).
PolarLens == {1, 2, 4}

\* Lengths of the cleaned series given to symmetric_distance.
DistLens == {1, 2, 3, 4}

SeriesOf(lens) == UNION {[1..n -> Values] : n \in lens}

(***************************************************************************)
(* Exact rational arithmetic.                                              *)
(***************************************************************************)
Abs(x) == IF x < 0 THEN -x ELSE x

Min2(a, b) == IF a <= b THEN a ELSE b

Max2(a, b) == IF a >= b THEN a ELSE b

RECURSIVE GCD(_, _)
GCD(a, b) == IF b = 0 THEN a ELSE GCD(b, a % b)

Q(n, d) ==
    LET s == IF d < 0 THEN -1 ELSE 1
        g == GCD(Abs(n), Abs(d))
    IN  <<(s * n) \div g, (s * d) \div g>>

QInt(n) == <<n, 1>>

QAdd(a, b) == Q(a[1] * b[2] + b[1] * a[2], a[2] * b[2])

QSub(a, b) == Q(a[1] * b[2] - b[1] * a[2], a[2] * b[2])

QMul(a, b) == Q(a[1] * b[1], a[2] * b[2])

QDiv(a, b) == Q(a[1] * b[2], a[2] * b[1])

QLe(a, b) == a[1] * b[2] <= b[1] * a[2]

QLt(a, b) == a[1] * b[2] < b[1] * a[2]

QMin(a, b) == IF QLe(a, b) THEN a ELSE b

QMax(a, b) == IF QLe(a, b) THEN b ELSE a

RECURSIVE QSum(_)
QSum(s) == IF s = <<>> THEN QInt(0) ELSE QAdd(Head(s), QSum(Tail(s)))

RECURSIVE SumSeq(_)
SumSeq(s) == IF s = <<>> THEN 0 ELSE Head(s) + SumSeq(Tail(s))

SeqMin(s) == CHOOSE m \in {s[i] : i \in DOMAIN s} : \A i \in DOMAIN s : m <= s[i]

SeqMax(s) == CHOOSE m \in {s[i] : i \in DOMAIN s} : \A i \in DOMAIN s : m >= s[i]

(***************************************************************************)
(* The values the program computes.                                        *)
(***************************************************************************)
Rat(q) == [k |-> "rat", q |-> q]

Sqrt(q) == [k |-> "sqrt", q |-> q]

Turn(q) == [k |-> "turn", q |-> q]

SinArea(N, q) == IF N = 4 THEN Rat(q) ELSE [k |-> "sinarea", N |-> N, q |-> q]

Opaque(what) == [k |-> "opaque", q |-> what]

Inf == [k |-> "inf"]

Returned(v) == [kind |-> "return", val |-> v]

Raised(e) == [kind |-> "raise", val |-> e]

NoResult == [kind |-> "none"]

(***************************************************************************)
(* utils.py, which polar.py imports and which is not part of the sources:  *)
(* the cleaning collaborator, the Polar Mapper and the Polygon Builder.    *)
(***************************************************************************)
\* fixseries returns a finite, non-empty numeric sequence.  The series of the
\* model are cleaned already, and cleaning a cleaned series returns it.
fixseries(series) == series

\* Polar Mapper: the radius of point i.  All values are shifted by -min when a
\* value is negative and passed through otherwise.
PolarRadii(ts) ==
    LET m == SeqMin(ts)
    IN  IF m < 0 THEN [i \in DOMAIN ts |-> ts[i] - m] ELSE ts

\* Polar Mapper: radii and angles, theta_i = 2*pi*i/N (i from 0).
get_list_of_points(ts) ==
    [radius |-> PolarRadii(ts),
     angles |-> [i \in DOMAIN ts |-> Turn(Q(i - 1, Len(ts)))]]

\* The number of distinct points of the ring: points of radius 0 coincide at
\* the origin, points of positive radius lie on different rays.  (For N = 2
\* the two rays are opposite, for N = 1 there is one point.)
DistinctPoints(r) ==
    Cardinality({i \in DOMAIN r : r[i] > 0})
      + (IF \E i \in DOMAIN r : r[i] = 0 THEN 1 ELSE 0)

\* Polygon Builder: fails with fewer than 3 distinct points.
CanBuild(ts) == DistinctPoints(PolarRadii(ts)) >= 3

\* The polygon of a series: its ring, and whether buffer(0) has rebuilt it.
create_polygon(ts) == [r |-> PolarRadii(ts), fixed |-> FALSE]

(***************************************************************************)
(* The geometry engine (shapely) on the polygons create_polygon builds.    *)
(***************************************************************************)
Next1(i, n) == IF i = n THEN 1 ELSE i + 1

Prev1(i, n) == IF i = 1 THEN n ELSE i - 1

\* The ring passes through the origin once for every cyclic run of zero radii.
ZeroRuns(r) ==
    Cardinality({i \in DOMAIN r : r[i] = 0 /\ r[Prev1(i, Len(r))] # 0})

\* polygon.is_valid: the ring touches itself when it passes through the origin
\* more than once.  A polygon rebuilt by buffer(0) is valid.
is_valid(p) == p.fixed \/ ZeroRuns(p.r) <= 1

\* polygon.buffer(0): the same region as a valid geometry.
buffer0(p) == [p EXCEPT !.fixed = TRUE]

\* Twice the area of the sector triangles, in units of sin(2*pi/N).
SectorTwice(r) == [i \in DOMAIN r |-> r[i] * r[Next1(i, Len(r))]]

\* polygon.area
PolygonArea(p) == SinArea(Len(p.r), Q(SumSeq(SectorTwice(p.r)), 2))

\* Twice the area (in units of the sine of the sector angle) common to the
\* triangle with legs a, a2 and the triangle with legs b, b2 in one sector.
RECURSIVE TriCommon(_, _, _, _)
TriCommon(a, a2, b, b2) ==
    IF a <= b /\ a2 <= b2 THEN QInt(a * a2)
    ELSE IF b <= a /\ b2 <= a2 THEN QInt(b * b2)
    ELSE IF a < b
         THEN Q(a * b2 * (2 * a2 * b - a * a2 - b * b2), a2 * b - a * b2)
         ELSE TriCommon(b, b2, a, a2)

\* Twice the area of the symmetric difference of two rings over the same rays.
SymDiffTwice(ra, rb) ==
    LET n == Len(ra)
        part(i) == QSub(QInt(ra[i] * ra[Next1(i, n)] + rb[i] * rb[Next1(i, n)]),
                        QMul(QInt(2), TriCommon(ra[i], ra[Next1(i, n)],
                                                rb[i], rb[Next1(i, n)])))
    IN  QSum([i \in 1..n |-> part(i)])

\* polygon_1.symmetric_difference(polygon_2).area.  Two regions over different
\* rays have an area the model keeps symbolic: the region pair itself.
SymDiffArea(p1, p2) ==
    IF Len(p1.r) = Len(p2.r)
    THEN SinArea(Len(p1.r), QDiv(SymDiffTwice(p1.r, p2.r), QInt(2)))
    ELSE Opaque({p1.r, p2.r})

\* What a boolean operation on two polygons can do: GEOS requires valid
\* operands; given an invalid one it may raise or return a result.
BooleanOutcomes(p1, p2, v) ==
    {Returned(v)} \cup
    (IF is_valid(p1) /\ is_valid(p2) THEN {} ELSE {Raised("TopologicalError")})

(***************************************************************************)
(* Coordinates, for the rings of four points: the rays are the axes.       *)
(***************************************************************************)
AxisDir == <<(<<1, 0>>), (<<0, 1>>), (<<-1, 0>>), (<<0, -1>>)>>

\* polygon.exterior.coords: the points of the ring, the first one repeated at
\* the end.
ExteriorCoords(p) ==
    LET n == Len(p.r)
        pt(j) == <<p.r[j] * AxisDir[j][1], p.r[j] * AxisDir[j][2]>>
    IN  [j \in 1..(n + 1) |-> pt(IF j = n + 1 THEN 1 ELSE j)]

PointSet(p) == {ExteriorCoords(p)[j] : j \in 1..Len(p.r)}

SetMin(S) == CHOOSE m \in S : \A x \in S : m <= x

SetMax(S) == CHOOSE m \in S : \A x \in S : m >= x

Span(S) == SetMax(S) - SetMin(S)

Cross(d, e) == d[1] * e[2] - d[2] * e[1]

Dot(d, e) == d[1] * e[1] + d[2] * e[2]

Minus(P, R) == <<P[1] - R[1], P[2] - R[2]>>

\* polygon.bounds: minx, miny, maxx, maxy
Bounds(p) ==
    LET xs == {P[1] : P \in PointSet(p)}
        ys == {P[2] : P \in PointSet(p)}
    IN  <<SetMin(xs), SetMin(ys), SetMax(xs), SetMax(ys)>>

\* The convex hull is a line when all points are collinear.
HullIsLine(p) ==
    \A P \in PointSet(p), R \in PointSet(p), X \in PointSet(p) :
        Cross(Minus(R, P), Minus(X, P)) = 0

\* The edges of the convex hull, counter-clockwise: every point lies on the
\* left of the edge or on its line.
HullEdges(p) ==
    {e \in PointSet(p) \X PointSet(p) :
        /\ e[1] # e[2]
        /\ \A X \in PointSet(p) : Cross(Minus(e[2], e[1]), Minus(X, e[1])) >= 0}

\* The bounding rectangle with a side along the hull edge e.  With d the edge
\* vector and L its length, the sides are du/L and dv/L long, and the
\* rectangle's own axis-aligned bounds are ext[1] wide and ext[2] high.
EdgeRect(p, e) ==
    LET d  == Minus(e[2], e[1])
        L2 == Dot(d, d)
        du == Span({Dot(X, d) : X \in PointSet(p)})
        dv == Span({Cross(d, X) : X \in PointSet(p)})
    IN  [du |-> du, dv |-> dv, rectarea |-> Q(du * dv, L2),
         ext |-> <<Q(du * Abs(d[1]) + dv * Abs(d[2]), L2),
                   Q(du * Abs(d[2]) + dv * Abs(d[1]), L2)>>]

\* polygon.minimum_rotated_rectangle: a rectangle of least area among those
\* along the hull's edges; the hull itself when the hull is a line.  Several
\* edges may give the least area.
MinimumRotatedRectangles(p) ==
    IF HullIsLine(p)
    THEN LET b == Bounds(p)
         IN  {[du |-> (b[3] - b[1]) + (b[4] - b[2]), dv |-> 0, rectarea |-> QInt(0),
               ext |-> <<QInt(b[3] - b[1]), QInt(b[4] - b[2])>>]}
    ELSE LET rects == {EdgeRect(p, e) : e \in HullEdges(p)}
         IN  {m \in rects : \A x \in rects : QLe(m.rectarea, x.rectarea)}

\* polygon.centroid: the area-weighted centroid of the triangles between the
\* origin and each edge; for a polygon of area 0, the length-weighted centroid
\* of its edges (which then lie on one axis).
Centroid(p) ==
    LET c  == ExteriorCoords(p)
        n  == Len(p.r)
        w  == SectorTwice(p.r)
        A2 == SumSeq(w)
        ln == [j \in 1..n |-> Abs(c[j + 1][1] - c[j][1]) + Abs(c[j + 1][2] - c[j][2])]
    IN  IF A2 > 0
        THEN <<Q(SumSeq([j \in 1..n |-> w[j] * (c[j][1] + c[j + 1][1])]), 3 * A2),
               Q(SumSeq([j \in 1..n |-> w[j] * (c[j][2] + c[j + 1][2])]), 3 * A2)>>
        ELSE <<Q(SumSeq([j \in 1..n |-> ln[j] * (c[j][1] + c[j + 1][1])]), 2 * SumSeq(ln)),
               Q(SumSeq([j \in 1..n |-> ln[j] * (c[j][2] + c[j + 1][2])]), 2 * SumSeq(ln))>>

\* The square of the distance from the point P to the rational point C.
Dist2(P, C) ==
    LET dx == QSub(QInt(P[1]), C[1])
        dy == QSub(QInt(P[2]), C[2])
    IN  QAdd(QMul(dx, dx), QMul(dy, dy))

\* polygon.envelope is a polygon, with an exterior, only when the bounds have
\* a positive width and height; otherwise it is a line or a point.
EnvelopeIsPolygon(p) ==
    LET b == Bounds(p) IN b[1] < b[3] /\ b[2] < b[4]

\* polygon.envelope.exterior.coords.xy
EnvelopeXY(p) ==
    LET b == Bounds(p)
    IN  [x |-> <<b[1], b[3], b[3], b[1], b[1]>>, y |-> <<b[2], b[2], b[4], b[4], b[2]>>]

\* Twice the area of the part of the triangle with legs a, b on the positive
\* axes that lies in the box [0, w] x [0, h]: the triangle, less its tip beyond
\* w, less its tip beyond h, plus what the two tips share.
ClippedTwice(a, b, w, h) ==
    IF a = 0 \/ b = 0 THEN QInt(0)
    ELSE LET tipx == IF a > w THEN Q(b * (a - w) * (a - w), a) ELSE QInt(0)
             tipy == IF b > h THEN Q(a * (b - h) * (b - h), b) ELSE QInt(0)
             rest == a * b - w * b - h * a
             both == IF rest > 0 THEN Q(rest * rest, a * b) ELSE QInt(0)
         IN  QAdd(QSub(QSub(QInt(a * b), tipx), tipy), both)

\* The area of box.intersection(polygon), for a box with a corner at the
\* origin and sides along the axes: the part of the polygon in the box's
\* quadrant is the triangle on the two rays that bound the box.
BoxIntersectionArea(box, p) ==
    LET xs == {c[1] : c \in box}
        ys == {c[2] : c \in box}
        rx == IF SetMin(xs) >= 0 THEN p.r[1] ELSE p.r[3]
        ry == IF SetMin(ys) >= 0 THEN p.r[2] ELSE p.r[4]
    IN  Rat(QDiv(ClippedTwice(rx, ry, Span(xs), Span(ys)), QInt(2)))

(***************************************************************************)
(* numpy on one-dimensional arrays.                                        *)
(***************************************************************************)
\* numpy.roll(a, k): element j moves to position j + k, cyclically.
roll(a, k) ==
    LET n == Len(a)
    IN  [j \in 1..n |-> a[((j - 1 - k) % n) + 1]]

\* a - b is defined for equal lengths and, by broadcasting, when one array
\* has length 1; otherwise numpy raises ValueError.
Broadcastable(a, b) == Len(a) = Len(b) \/ Len(a) = 1 \/ Len(b) = 1

Subtract(a, b) ==
    [j \in 1..Max2(Len(a), Len(b)) |->
        (IF Len(a) = 1 THEN a[1] ELSE a[j]) - (IF Len(b) = 1 THEN b[1] ELSE b[j])]

\* numpy.linalg.norm: the square root of the sum of the squares.
norm(x) == Sqrt(QInt(SumSeq([j \in DOMAIN x |-> x[j] * x[j]])))

\* a < b on norms and numpy.inf: the square root is increasing.
ValLt(a, b) == a.k # "inf" /\ (b.k = "inf" \/ QLt(a.q, b.q))

(***************************************************************************)
(* The state.                                                              *)
(***************************************************************************)
VARIABLES
    fn,             \* the function called
    args,           \* its arguments: the cleaned series the caller holds
    pc,             \* the position in the function
    ret,            \* what the call returned or raised
    time_series_1,  \* symmetric_distance: locals
    time_series_2,
    polygon_1,
    polygon_2,
    dist,
    pos,
    i,
    ts,             \* ts_polar: locals
    circle,
    gyro,
    area,
    areas,
    balance,
    ang,
    rrec,           \* the rectangle minimum_rotated_rectangle returned
    gdists,         \* the squared distance of every exterior point to the centroid
    evals,          \* how many shifts the alignment search has evaluated
    tested,         \* the polygon variables the function has tested with is_valid
    ops,            \* the geometry operations performed, with their operands
    calls,          \* the functions of polar.py invoked by the call
    phase,          \* 1: the call; 2: the call with the arguments swapped
    first           \* the result of the call of phase 1

sdVars == <<time_series_1, time_series_2, polygon_1, polygon_2, dist, pos, i>>

tpVars == <<ts, circle, gyro, area, areas, balance, ang, rrec, gdists>>

logVars == <<evals, tested, ops, calls>>

vars == <<fn, args, pc, ret, sdVars, tpVars, logVars, phase, first>>

None == [k |-> "none"]

\* One geometry operation: its name, and for each operand polygon whether the
\* function had tested it with is_valid and whether it was valid when used.
Op(name, wasTested, wasValid) == [op |-> name, tested |-> wasTested, valid |-> wasValid]

(***************************************************************************)
(* symmetric_distance(time_series_1, time_series_2)                        *)
(***************************************************************************)
\* Mutants of line 102: ranges that only touch count as disjoint; only the
\* first comparison is made.
RangesDisjointOrTouching(a, b) == SeqMin(a) >= SeqMax(b) \/ SeqMin(b) >= SeqMax(a)

RangesDisjointOneWay(a, b) == SeqMin(a) > SeqMax(b)

\* line 102: the value ranges do not overlap
RangesDisjoint(a, b) == SeqMin(a) > SeqMax(b) \/ SeqMin(b) > SeqMax(a)

\* Mutant of line 112: a shift of equal norm replaces the best one so far.
BetterOrEqual(temp, best) == ~ValLt(best, temp)

\* line 112: the shift replaces the best one so far
Better(temp, best) == ValLt(temp, best)

\* lines 120-132: polygon_2 is repaired unless it is valid
Repaired(p) == IF is_valid(p) THEN p ELSE buffer0(p)

Raise(e) ==
    /\ ret' = Raised(e)
    /\ pc' = "done"

\* lines 89-102: clean both series, build and repair polygon_1, branch.
sd_enter ==
    /\ pc = "sd_call"
    /\ time_series_1' = fixseries(args[1])
    /\ time_series_2' = fixseries(args[2])
    /\ dist' = Inf
    /\ pos' = Inf
    /\ i' = 0
    /\ calls' = Append(calls, "create_polygon")
    /\ IF ~CanBuild(time_series_1')
       THEN /\ Raise("GeometryError")
            /\ UNCHANGED <<polygon_1, tested>>
       ELSE /\ polygon_1' = (IF is_valid(create_polygon(time_series_1')) = FALSE
                             THEN buffer0(create_polygon(time_series_1'))
                             ELSE create_polygon(time_series_1'))
            /\ tested' = tested \cup {"polygon_1"}
            /\ pc' = IF RangesDisjoint(time_series_1', time_series_2')
                     THEN "sd_fast" ELSE "sd_search"
            /\ ret' = ret
    /\ UNCHANGED <<fn, args, polygon_2, tpVars, evals, ops, phase, first>>

\* lines 103-105 and 134: the fast path.
sd_fast ==
    /\ pc = "sd_fast"
    /\ calls' = Append(calls, "create_polygon")
    /\ IF ~CanBuild(time_series_2)
       THEN /\ Raise("GeometryError")
            /\ UNCHANGED <<polygon_2, dist, ops>>
       ELSE /\ polygon_2' = create_polygon(time_series_2)
            /\ ops' = Append(ops, Op("symmetric_difference",
                                     <<"polygon_1" \in tested, "polygon_2" \in tested>>,
                                     <<is_valid(polygon_1), is_valid(polygon_2')>>))
            /\ \E o \in BooleanOutcomes(polygon_1, polygon_2',
                                        SymDiffArea(polygon_1, polygon_2')) :
                  IF o.kind = "raise"
                  THEN /\ ret' = o
                       /\ dist' = dist
                  ELSE /\ dist' = o.val
                       /\ ret' = Returned(dist')
            /\ pc' = "done"
    /\ UNCHANGED <<fn, args, time_series_1, time_series_2, polygon_1, pos, i,
                   tpVars, evals, tested, phase, first>>

\* lines 107-114: one shift of the alignment search.
sd_search ==
    /\ pc = "sd_search"
    /\ i < Len(time_series_1)
    /\ LET shifted_time_series_2 == roll(time_series_2, i)
       IN  IF ~Broadcastable(time_series_1, shifted_time_series_2)
           THEN /\ Raise("ValueError")
                /\ UNCHANGED <<dist, pos, i, evals>>
           ELSE LET temp == norm(Subtract(time_series_1, shifted_time_series_2))
                IN  /\ IF Better(temp, dist)
                       THEN dist' = temp /\ pos' = i
                       ELSE UNCHANGED <<dist, pos>>
                    /\ i' = i + 1
                    /\ evals' = evals + 1
                    /\ UNCHANGED <<pc, ret>>
    /\ UNCHANGED <<fn, args, time_series_1, time_series_2, polygon_1, polygon_2,
                   tpVars, tested, ops, calls, phase, first>>

\* lines 115-134: roll by the best shift, build and repair polygon_2, return
\* the area of the symmetric difference.
sd_align ==
    /\ pc = "sd_search"
    /\ i = Len(time_series_1)
    /\ time_series_2' = roll(time_series_2, pos)
    /\ calls' = Append(calls, "create_polygon")
    /\ IF ~CanBuild(time_series_2')
       THEN /\ Raise("GeometryError")
            /\ UNCHANGED <<polygon_2, dist, ops, tested>>
       ELSE /\ polygon_2' = Repaired(create_polygon(time_series_2'))
            /\ tested' = tested \cup {"polygon_2"}
            /\ ops' = Append(ops, Op("symmetric_difference",
                                     <<"polygon_1" \in tested', "polygon_2" \in tested'>>,
                                     <<is_valid(polygon_1), is_valid(polygon_2')>>))
            /\ \E o \in BooleanOutcomes(polygon_1, polygon_2',
                                        SymDiffArea(polygon_1, polygon_2')) :
                  IF o.kind = "raise"
                  THEN /\ ret' = o
                       /\ dist' = dist
                  ELSE /\ dist' = o.val
                       /\ ret' = Returned(dist')
            /\ pc' = "done"
    /\ UNCHANGED <<fn, args, time_series_1, polygon_1, pos, i,
                   tpVars, evals, phase, first>>

\* A caller that holds the result calls again with the arguments exchanged.
Swap ==
    /\ pc = "done"
    /\ phase = 1
    /\ phase' = 2
    /\ first' = ret
    /\ args' = <<args[2], args[1]>>
    /\ pc' = "sd_call"
    /\ ret' = NoResult
    /\ evals' = 0
    /\ tested' = {}
    /\ ops' = <<>>
    /\ calls' = <<>>
    /\ time_series_1' = <<>>
    /\ time_series_2' = <<>>
    /\ polygon_1' = None
    /\ polygon_2' = None
    /\ dist' = None
    /\ pos' = None
    /\ i' = 0
    /\ UNCHANGED <<fn, tpVars>>

InitLocals ==
    /\ time_series_1 = <<>>
    /\ time_series_2 = <<>>
    /\ polygon_1 = None
    /\ polygon_2 = None
    /\ dist = None
    /\ pos = None
    /\ i = 0
    /\ ts = <<>>
    /\ circle = None
    /\ gyro = None
    /\ area = None
    /\ areas = None
    /\ balance = None
    /\ ang = None
    /\ rrec = None
    /\ gdists = <<>>
    /\ evals = 0
    /\ tested = {}
    /\ ops = <<>>
    /\ calls = <<>>
    /\ ret = NoResult
    /\ phase = 1
    /\ first = NoResult

InitDist ==
    /\ fn = "symmetric_distance"
    /\ args \in SeriesOf(DistLens) \X SeriesOf(DistLens)
    /\ pc = "sd_call"
    /\ InitLocals

NextDist == sd_enter \/ sd_fast \/ sd_search \/ sd_align

(***************************************************************************)
(* The metric extractors.  Each gives the set of its possible outcomes.    *)
(***************************************************************************)
\* get_seasons(x, y): the four season boxes, each the set of its corners, in
\* the order top-left, top-right, bottom-left, bottom-right.
get_seasons(x, y) ==
    LET maxX == SetMax({Abs(x[j]) : j \in DOMAIN x})
        maxY == SetMax({Abs(y[j]) : j \in DOMAIN y})
        minX == -maxX
        minY == -maxY
        coord0 == <<minX, maxY>>
        coord1 == <<0, maxY>>
        coord2 == <<maxX, maxY>>
        coord3 == <<minX, 0>>
        coord4 == <<0, 0>>
        coord5 == <<maxX, 0>>
        coord6 == <<minX, minY>>
        coord7 == <<0, minY>>
        coord8 == <<maxX, minY>>
    IN  <<{coord0, coord3, coord4, coord1},
          {coord1, coord2, coord5, coord4},
          {coord3, coord4, coord7, coord6},
          {coord4, coord5, coord8, coord7}>>

\* Mutant of lines 278-283: the areas in the order get_seasons builds the boxes.
area_season_as_built(timeseries) ==
    LET series  == fixseries(timeseries)
        polygon == create_polygon(series)
        xy      == EnvelopeXY(polygon)
        seasons == get_seasons(xy.x, xy.y)
    IN  IF ~CanBuild(series) THEN {Raised("GeometryError")}
        ELSE IF ~EnvelopeIsPolygon(polygon) THEN {Raised("AttributeError")}
        ELSE {Returned([j \in 1..4 |-> BoxIntersectionArea(seasons[j], polygon)])}

\* lines 257-283: the areas of the polygon in the four season boxes.
area_season(timeseries) ==
    LET series  == fixseries(timeseries)
        polygon == create_polygon(series)
        xy      == EnvelopeXY(polygon)
        seasons == get_seasons(xy.x, xy.y)
        polyTopLeft     == seasons[1]
        polyTopRight    == seasons[2]
        polyBottomLeft  == seasons[3]
        polyBottomRight == seasons[4]
        area1 == BoxIntersectionArea(polyTopRight, polygon)
        area2 == BoxIntersectionArea(polyTopLeft, polygon)
        area3 == BoxIntersectionArea(polyBottomLeft, polygon)
        area4 == BoxIntersectionArea(polyBottomRight, polygon)
    IN  IF ~CanBuild(series) THEN {Raised("GeometryError")}
        ELSE IF ~EnvelopeIsPolygon(polygon) THEN {Raised("AttributeError")}
        ELSE BooleanOutcomes(polygon, polygon, <<area1, area2, area3, area4>>)

\* lines 312-316: the smaller of the two extents of the rectangle's bounds
\* over the larger.
BoundsRatio(rect) ==
    LET axis1 == rect.ext[1]
        axis2 == rect.ext[2]
    IN  Rat(QDiv(QMin(axis1, axis2), QMax(axis1, axis2)))

\* lines 305-316: the outcomes, each with the rectangle it came from.
ecc_metric(timeseries) ==
    LET series  == fixseries(timeseries)
        polygon == create_polygon(series)
    IN  IF ~CanBuild(series) THEN {[out |-> Raised("GeometryError"), rect |-> None]}
        ELSE {[out |-> Returned(BoundsRatio(m)), rect |-> m] :
                 m \in MinimumRotatedRectangles(polygon)}

\* The squared distances to the centroid of all exterior points, in order.
CentroidDist2(polygon) ==
    LET c == ExteriorCoords(polygon)
    IN  [j \in DOMAIN c |-> Dist2(c[j], Centroid(polygon))]

\* lines 371-379: dist is assigned, not appended to, in every iteration: after
\* the loop it is the distance of the last exterior point, and numpy.mean of
\* that one number is the number.
GyrationLoop(d2) == Sqrt(d2[Len(d2)])

\* lines 362-379
gyration_radius(timeseries) ==
    LET series  == fixseries(timeseries)
        polygon == create_polygon(series)
    IN  IF ~CanBuild(series) THEN Raised("GeometryError")
        ELSE Returned(GyrationLoop(CentroidDist2(polygon)))

\* lines 425-431
area_ts(timeseries) ==
    LET series  == fixseries(timeseries)
        polygon == create_polygon(series)
    IN  IF ~CanBuild(series) THEN Raised("GeometryError")
        ELSE Returned(PolygonArea(polygon))

\* numpy.std of four numbers: the square root of the mean squared deviation.
std4(a) ==
    LET mean == QDiv(QSum([j \in 1..4 |-> a[j].q]), QInt(4))
        dev2(j) == QMul(QSub(a[j].q, mean), QSub(a[j].q, mean))
    IN  Sqrt(QDiv(QSum([j \in 1..4 |-> dev2(j)]), QInt(4)))

\* lines 399-404
polar_balance(timeseries) ==
    LET series == fixseries(timeseries)
    IN  {IF o.kind = "raise" THEN o ELSE Returned(std4(o.val)) : o \in area_season(series)}

\* numpy.argmax: the first index of the largest value.
argmax(a) == SetMin({j \in DOMAIN a : \A m \in DOMAIN a : a[j] >= a[m]})

\* lines 337-342
angle(timeseries) ==
    LET series == fixseries(timeseries)
        points == get_list_of_points(series)
    IN  Returned(points.angles[argmax(points.radius)])

(***************************************************************************)
(* ts_polar(timeseries, show)                                              *)
(***************************************************************************)
metrics_count == 9

\* numpy.ones(shape): an array of the given shape, filled with 1.0.
ones(shape) ==
    [shape |-> shape,
     data  |-> [j \in 1..(IF Len(shape) = 1 THEN shape[1] ELSE shape[1] * shape[2]) |->
                   Rat(QInt(1))]]

\* numpy.array(list): a one-dimensional array of the list's elements.
array(list) == [shape |-> <<Len(list)>>, data |-> list]

\* line 47: what the short-circuit returns.
DegenerateResult == ones(<<1, metrics_count>>)

\* line 70: the layout of the result.
Features ==
    array(<<area, areas[1], areas[2], areas[3], areas[4], circle, gyro, balance, ang>>)

\* The operation an extractor performs on the polygon it builds, untested.
Measured(name, series) ==
    IF CanBuild(series)
    THEN <<Op(name, <<FALSE>>, <<is_valid(create_polygon(series))>>)>>
    ELSE <<>>

\* lines 42-47: clean the series; a series of one value is answered at once.
tp_enter ==
    /\ pc = "tp_call"
    /\ ts' = fixseries(args[1])
    /\ IF Len(ts') = 1
       THEN /\ ret' = Returned(DegenerateResult)
            /\ pc' = "done"
       ELSE /\ pc' = "tp_ecc"
            /\ ret' = ret
    /\ UNCHANGED <<fn, args, sdVars, circle, gyro, area, areas, balance, ang, rrec,
                   gdists, logVars, phase, first>>

\* line 50
tp_ecc ==
    /\ pc = "tp_ecc"
    /\ calls' = calls \o <<"ecc_metric", "create_polygon">>
    /\ ops' = ops \o Measured("minimum_rotated_rectangle", ts)
    /\ \E o \in ecc_metric(ts) :
          IF o.out.kind = "raise"
          THEN /\ Raise(o.out.val)
               /\ UNCHANGED <<circle, rrec>>
          ELSE /\ circle' = o.out.val
               /\ rrec' = o.rect
               /\ pc' = "tp_gyro"
               /\ ret' = ret
    /\ UNCHANGED <<fn, args, sdVars, ts, gyro, area, areas, balance, ang, gdists,
                   evals, tested, phase, first>>

\* line 53
tp_gyro ==
    /\ pc = "tp_gyro"
    /\ calls' = calls \o <<"gyration_radius", "create_polygon">>
    /\ ops' = ops \o Measured("centroid", ts)
    /\ IF gyration_radius(ts).kind = "raise"
       THEN /\ Raise(gyration_radius(ts).val)
            /\ UNCHANGED <<gyro, gdists>>
       ELSE /\ gyro' = gyration_radius(ts).val
            /\ gdists' = CentroidDist2(create_polygon(ts))
            /\ pc' = "tp_area"
            /\ ret' = ret
    /\ UNCHANGED <<fn, args, sdVars, ts, circle, area, areas, balance, ang, rrec,
                   evals, tested, phase, first>>

\* line 56
tp_area ==
    /\ pc = "tp_area"
    /\ calls' = calls \o <<"area_ts", "create_polygon">>
    /\ ops' = ops \o Measured("area", ts)
    /\ IF area_ts(ts).kind = "raise"
       THEN /\ Raise(area_ts(ts).val)
            /\ area' = area
       ELSE /\ area' = area_ts(ts).val
            /\ pc' = "tp_season"
            /\ ret' = ret
    /\ UNCHANGED <<fn, args, sdVars, ts, circle, gyro, areas, balance, ang, rrec,
                   gdists, evals, tested, phase, first>>

\* line 59
tp_season ==
    /\ pc = "tp_season"
    /\ calls' = calls \o <<"area_season", "create_polygon">>
    /\ ops' = ops \o (IF EnvelopeIsPolygon(create_polygon(ts))
                      THEN Measured("intersection", ts) ELSE <<>>)
    /\ \E o \in area_season(ts) :
          IF o.kind = "raise"
          THEN /\ Raise(o.val)
               /\ areas' = areas
          ELSE /\ areas' = o.val
               /\ pc' = "tp_balance"
               /\ ret' = ret
    /\ UNCHANGED <<fn, args, sdVars, ts, circle, gyro, area, balance, ang, rrec,
                   gdists, evals, tested, phase, first>>

\* line 62
tp_balance ==
    /\ pc = "tp_balance"
    /\ calls' = calls \o <<"polar_balance", "area_season", "create_polygon">>
    /\ ops' = ops \o Measured("intersection", ts)
    /\ \E o \in polar_balance(ts) :
          IF o.kind = "raise"
          THEN /\ Raise(o.val)
               /\ balance' = balance
          ELSE /\ balance' = o.val
               /\ pc' = "tp_angle"
               /\ ret' = ret
    /\ UNCHANGED <<fn, args, sdVars, ts, circle, gyro, area, areas, ang, rrec,
                   gdists, evals, tested, phase, first>>

\* lines 65-67
tp_angle ==
    /\ pc = "tp_angle"
    /\ calls' = Append(calls, "angle")
    /\ ang' = angle(ts).val
    /\ pc' = IF args[2] = TRUE THEN "tp_show" ELSE "tp_return"
    /\ UNCHANGED <<fn, args, ret, sdVars, ts, circle, gyro, area, areas, balance,
                   rrec, gdists, evals, tested, ops, phase, first>>

\* line 68: polar_plot draws the polygon and returns None.
tp_show ==
    /\ pc = "tp_show"
    /\ calls' = calls \o <<"polar_plot", "create_polygon">>
    /\ pc' = "tp_return"
    /\ UNCHANGED <<fn, args, ret, sdVars, tpVars, evals, tested, ops, phase, first>>

\* line 70
tp_return ==
    /\ pc = "tp_return"
    /\ ret' = Returned(Features)
    /\ pc' = "done"
    /\ UNCHANGED <<fn, args, sdVars, tpVars, logVars, phase, first>>

InitPolar ==
    /\ fn = "ts_polar"
    /\ args \in SeriesOf(PolarLens) \X BOOLEAN
    /\ pc = "tp_call"
    /\ InitLocals

NextPolar ==
    \/ tp_enter
    \/ tp_ecc
    \/ tp_gyro
    \/ tp_area
    \/ tp_season
    \/ tp_balance
    \/ tp_angle
    \/ tp_show
    \/ tp_return

(***************************************************************************)
(* The specifications: one call of either function; and a call of          *)
(* symmetric_distance followed by the call with the arguments exchanged.   *)
(***************************************************************************)
Init == InitPolar \/ InitDist

Next == NextPolar \/ NextDist

Spec == Init /\ [][Next]_vars

SpecSwap == InitDist /\ [][NextDist \/ Swap]_vars

(***************************************************************************)
(* What the claims are stated with.                                        *)
(***************************************************************************)
PolarDone == fn = "ts_polar" /\ pc = "done"

DistDone == fn = "symmetric_distance" /\ pc = "done"

SeriesA == fixseries(args[1])

SeriesB == fixseries(args[2])

IsZero(v) == v.k \in {"rat", "sinarea"} /\ v.q = QInt(0)

\* Every value of one series is greater than every value of the other.
Apart(a, b) ==
    \/ \A m \in DOMAIN a, n \in DOMAIN b : a[m] > b[n]
    \/ \A m \in DOMAIN a, n \in DOMAIN b : b[n] > a[m]

\* The area of a ring of four points by the shoelace formula on its
\* coordinates.
ShoelaceArea(r) ==
    LET c == ExteriorCoords([r |-> r, fixed |-> FALSE])
    IN  Rat(Q(Abs(SumSeq([j \in 1..4 |-> c[j][1] * c[j + 1][2] - c[j + 1][1] * c[j][2]])), 2))

\* The areas of a ring of four points in the quadrants top-right, top-left,
\* bottom-left and bottom-right: a right triangle in each.
QuadrantAreas(r) ==
    <<Rat(Q(r[1] * r[2], 2)), Rat(Q(r[2] * r[3], 2)),
      Rat(Q(r[3] * r[4], 2)), Rat(Q(r[4] * r[1], 2))>>

\* The layout [area, area_q1..area_q4, eccentricity, gyration_radius,
\* polar_balance, angle] of the result for the cleaned series.
LaidOut(v) ==
    LET r == PolarRadii(ts)
    IN  /\ v.shape = <<9>>
        /\ Len(v.data) = 9
        /\ v.data[1] = ShoelaceArea(r)
        /\ <<v.data[2], v.data[3], v.data[4], v.data[5]>> = QuadrantAreas(r)
        /\ v.data[6] = circle /\ circle = BoundsRatio(rrec)
        /\ v.data[7] = gyro /\ gyro = gyration_radius(ts).val
        /\ v.data[8] = std4(QuadrantAreas(r))
        /\ v.data[9] = Turn(Q(argmax(r) - 1, Len(r)))

\* The sum of the squares of A - roll(B, j): the square of the norm at shift j.
Norm2(j) ==
    LET b == roll(SeriesB, j)
    IN  SumSeq([m \in 1..Len(SeriesA) |-> (SeriesA[m] - b[m]) * (SeriesA[m] - b[m])])

\* The smallest shift below n whose norm is least among the shifts below n.
FirstBest(n) ==
    SetMin({j \in 0..(n - 1) : \A m \in 0..(n - 1) : Norm2(j) <= Norm2(m)})

RECURSIVE RootFrom(_, _)
RootFrom(n, k) == IF (k + 1) * (k + 1) > n THEN k ELSE RootFrom(n, k + 1)

\* The integer part of 100 times the square root of the rational q.
Root100(q) == RootFrom((10000 * q[1]) \div q[2], 0)

(***************************************************************************)
(* The claims.                                                             *)
(***************************************************************************)

\* C1: for a cleaned series of length 1, ts_polar returns the all-ones vector
\* of 9 elements, of the same one-dimensional shape as the result for a longer
\* series, without building a polygon, invoking an extractor or polar_plot,
\* or raising.
C1_DegenerateVector ==
    (PolarDone /\ Len(SeriesA) = 1) =>
        /\ ret = Returned(array([j \in 1..9 |-> Rat(QInt(1))]))
        /\ calls = <<>>
        /\ ops = <<>>

C3_MismatchRaises ==
    (DistDone /\ Len(SeriesA) # Len(SeriesB)) => ret.kind = "raise"

\* C4: symmetric_distance(A, B) equals symmetric_distance(B, A) for cleaned
\* series of equal length (compared when both calls return).
C4_Symmetric ==
    (DistDone /\ phase = 2 /\ Len(SeriesA) = Len(SeriesB)
       /\ first.kind = "return" /\ ret.kind = "return") => ret = first

\* C5, amended: for every cleaned series s whose ring has at least 3 distinct
\* points, symmetric_distance(s, s) returns 0: the fast path is not taken, all
\* shifts are evaluated and shift 0 is kept, polygon B equals polygon A.
C5_SelfDistanceZero ==
    (fn = "symmetric_distance" /\ SeriesA = SeriesB /\ CanBuild(SeriesA)) =>
        /\ pc # "sd_fast"
        /\ (pc = "sd_search" /\ i > 0) => (pos = 0 /\ dist = Sqrt(QInt(0)))
        /\ pc = "done" =>
              /\ ret.kind = "return" /\ IsZero(ret.val)
              /\ evals = Len(SeriesA)
              /\ pos = 0
              /\ polygon_2 = polygon_1

\* C5 as stated: for every cleaned series s, symmetric_distance(s, s)
\* returns 0.
C5_SelfDistanceZeroAlways ==
    (DistDone /\ SeriesA = SeriesB) => (ret.kind = "return" /\ IsZero(ret.val))

\* C5, witness: a self-distance returned for a series with a period, so that
\* a later shift also has norm 0, and with an invalid ring, so that both
\* polygons are repaired.
C5_Witness ==
    /\ DistDone /\ SeriesA = SeriesB /\ ret.kind = "return"
    /\ Len(SeriesA) = 4 /\ Norm2(2) = 0
    /\ ~is_valid(create_polygon(SeriesA))

\* C6: the alignment search is skipped exactly when the value ranges are
\* disjoint: then no shift is evaluated, polygon B is built from the unshifted
\* series B and the result is the area of the symmetric difference; when the
\* ranges overlap, all len(A) shifts are evaluated before polygon B is built.
C6_FastPathIffDisjoint ==
    (fn = "symmetric_distance" /\ pc # "sd_call") =>
        /\ Apart(SeriesA, SeriesB) =>
              /\ evals = 0
              /\ pc \in {"sd_fast", "done"}
              /\ time_series_2 = SeriesB
              /\ polygon_2 # None => polygon_2 = create_polygon(SeriesB)
        /\ ~Apart(SeriesA, SeriesB) =>
              /\ pc # "sd_fast"
              /\ polygon_2 # None => evals = Len(SeriesA)
              /\ (pc = "done" /\ ret.kind = "return") => evals = Len(SeriesA)
        /\ (pc = "done" /\ ret.kind = "return") =>
              ret.val = SymDiffArea(polygon_1, polygon_2)

\* C6, witness: a distance returned on the fast path, between two different
\* regions.
C6_Witness ==
    /\ DistDone /\ Apart(SeriesA, SeriesB) /\ ret.kind = "return"
    /\ evals = 0 /\ ~IsZero(ret.val) /\ Len(SeriesA) = Len(SeriesB)

\* C7: ecc_metric returns the shorter side of the minimum rotated rectangle
\* over its longer side; the result is in [0, 1], and 0 when the rectangle
\* degenerates to a line.
C7_EccIsSideRatio ==
    (fn = "ts_polar" /\ circle # None) =>
        /\ circle = Rat(Q(Min2(rrec.du, rrec.dv), Max2(rrec.du, rrec.dv)))
        /\ QLe(QInt(0), circle.q) /\ QLe(circle.q, QInt(1))
        /\ rrec.dv = 0 => circle.q = QInt(0)

\* C8: gyration_radius returns the mean, over all exterior points, of the
\* distance to the centroid (to within a hundredth: n times the result and the
\* sum of the n distances, each scaled by 100 and cut to an integer, are less
\* than n apart).
C8_GyrationIsMean ==
    (fn = "ts_polar" /\ gyro # None) =>
        LET n   == Len(gdists)
            sum == SumSeq([j \in 1..n |-> Root100(gdists[j])])
            got == n * Root100(gyro.q)
        IN  sum < got + n /\ got < sum + n

\* C9: in the alignment search on series of equal length N, the shift kept is
\* always the smallest one of least norm among those evaluated; when the loop
\* ends it is an integer in [0, N); polygon B is built from roll(B, pos); and
\* the value returned is the area of the symmetric difference, not the norm.
C9_FirstMinimumShift ==
    (fn = "symmetric_distance" /\ Len(SeriesA) = Len(SeriesB) /\ evals > 0) =>
        /\ pos = FirstBest(evals)
        /\ evals = Len(SeriesA) => pos \in 0..(Len(SeriesA) - 1)
        /\ pc = "sd_search" => dist = Sqrt(QInt(Norm2(pos)))
        /\ polygon_2 # None => polygon_2.r = PolarRadii(roll(SeriesB, pos))
        /\ (pc = "done" /\ ret.kind = "return") =>
              /\ ret.val = SymDiffArea(polygon_1, polygon_2)
              /\ ret.val.k \in {"rat", "sinarea"}

\* C9, witness: a distance returned after a search in which a later shift
\* ties with the one kept, and the one kept is not the first evaluated.
C9_Witness ==
    /\ DistDone /\ ret.kind = "return" /\ Len(SeriesA) = Len(SeriesB)
    /\ evals = Len(SeriesA) /\ pos \in 1..(Len(SeriesA) - 1)
    /\ \E j \in (pos + 1)..(Len(SeriesA) - 1) : Norm2(j) = Norm2(pos)
    /\ ~IsZero(ret.val)

\* C10: every polygon is valid, tested and if need be repaired, when a boolean
\* operation or a metric uses it.
C10_OperandsValid ==
    \A j \in DOMAIN ops : \A m \in DOMAIN ops[j].valid : ops[j].valid[m]

===========================================================================
